---- MODULE Spec2Model ----
(***************************************************************************)
(* Model of similytics (src/main.ts and src/prismicLib): the retry         *)
(* orchestrator retryWithBackoff, the unreliable channel readFileFromCloud *)
(* / writeFileToCloud, the JSON codec, generateDiff and the run main().    *)
(*                                                                         *)
(* Three specifications share the variables:                               *)
(*   SpecRetry  one call of retryWithBackoff on a scripted operation       *)
(*   SpecDiff   one call of generateDiff on a pair of enriched articles    *)
(*   Spec       one run of main()                                          *)
(*                                                                         *)
(* Text is modelled as a sequence of tokens, one token per JSON syntactic  *)
(* unit: <<"{">>, <<"}">>, <<"[">>, <<"]">>, a member <<key, value>>, an    *)
(* array element <<"item", value>>.  Truncation cuts between tokens.       *)
(***************************************************************************)
EXTENDS Integers, Sequences, FiniteSets, TLC

(* ------------------------------ bounds -------------------------------- *)
\* largest maxRetries the scripted retry call is given
MaxN == 4
\* the dice Math.random() is modelled in tenths, 0..MaxDice; every value
\* of 3 and above is the band 0.3 <= dice < 1
MaxDice == 3

(* ------------------------- program constants -------------------------- *)
DefaultMaxRetries == 5
BaseDelay == 1000
JitterRange == 1000

\* samples of Math.random() * 1000, a real of [0, 1000)
Jitter == {0, JitterRange - 1}
Dice == 0..MaxDice

(* ------------------------------ values -------------------------------- *)
None == <<>>
Some(v) == <<v>>

Undefined == "undefined"
Null == "null"

ReadFailed == "Read failed: filesystem error"
WriteFailed == "Write failed: filesystem error"
InvalidData == "Invalid or partial data received"
Enoent == "ENOENT: no such file or directory"
NoResponse == "No response from OpenAI"

\* mutant: the delay grows linearly with the attempt index
LinearGrowth(n) == n + 1

Pow2(n) == 2 ^ n

(* --------------------------- document codec --------------------------- *)
LBrace == <<"{">>
RBrace == <<"}">>
LBracket == <<"[">>
RBracket == <<"]">>

\* the order in which the members of the run's objects are written
KeyOrder == <<"title", "summary", "category", "takeaways", "similarTo", "changed">>

RECURSIVE MemberTokens(_, _)
MemberTokens(obj, keys) ==
    IF keys = <<>> THEN <<>>
    ELSE (IF Head(keys) \in DOMAIN obj
          THEN << <<Head(keys), obj[Head(keys)]>> >>
          ELSE <<>>) \o MemberTokens(obj, Tail(keys))

\* JSON.stringify(data, null, 2) of an object
JsonStringify(obj) == <<LBrace>> \o MemberTokens(obj, KeyOrder) \o <<RBrace>>

\* JSON.stringify of an array
JsonStringifyArray(arr) ==
    <<LBracket>> \o [i \in 1..Len(arr) |-> <<"item", arr[i]>>] \o <<RBracket>>

IsMemberToken(tok) == Len(tok) = 2 /\ tok[1] # "item"
IsItemToken(tok) == Len(tok) = 2 /\ tok[1] = "item"

IsObjectText(b) ==
    /\ Len(b) >= 2
    /\ b[1] = LBrace
    /\ b[Len(b)] = RBrace
    /\ \A i \in 2..(Len(b) - 1) : IsMemberToken(b[i])

IsArrayText(b) ==
    /\ Len(b) >= 2
    /\ b[1] = LBracket
    /\ b[Len(b)] = RBracket
    /\ \A i \in 2..(Len(b) - 1) : IsItemToken(b[i])

\* JSON.parse: None when it throws SyntaxError, Some(value) otherwise
JsonParse(b) ==
    IF IsObjectText(b)
    THEN LET idx == 2..(Len(b) - 1)
             keys == {b[i][1] : i \in idx}
             last(k) == CHOOSE i \in idx : b[i][1] = k /\ \A j \in idx : b[j][1] = k => j <= i
         IN Some([k \in keys |-> b[last(k)][2]])
    ELSE IF IsArrayText(b)
    THEN Some([i \in 1..(Len(b) - 2) |-> b[i + 1][2]])
    ELSE None

\* mutant: only the opening character of the data is looked at
isValidJsonOpens(data) == Len(data) > 0 /\ data[1] \in {LBrace, LBracket}

isValidJson(data) == JsonParse(data) # None

\* data.slice(0, cutAt)
Slice(data, cutAt) == SubSeq(data, 1, cutAt)

\* the values Math.floor(len * (0.5 + Math.random() * 0.4)) can take
CutPoints(len) ==
    {c \in 0..len : 2 * c + 1 >= len /\ (10 * c < 9 * len \/ len = 0)}

(* ------------------------------ state --------------------------------- *)
Slots == {"harness", "article", "previous", "existing", "output", "diff"}

VARIABLES
    rpc,          \* position of each retryWithBackoff call
    attempt,      \* its loop variable
    lastError,    \* its lastError (the message)
    maxRetries,   \* its maxRetries argument
    validator,    \* "none" or "isValidJson"
    rolled,       \* the dice of the channel call in flight, -1 when none
    delay,        \* the backoff delay being slept, 0 when none
    result,       \* Some(value) once the call has returned
    error,        \* the error the call has thrown
    calls,        \* how many times the operation was invoked
    sleeps,       \* how many backoff sleeps were started
    script,       \* the scripted operation of the retry harness
    dOld,         \* generateDiff's oldOutput
    dNew,         \* generateDiff's newOutput
    dOut,         \* Some(the Diff it returned)
    mpc,          \* position of main()
    store,        \* the channel entries: None when the file does not exist
    store0,       \* the entry output.json held when the run started
    article,
    previousArticles,
    similarityAnalysis,
    enrichedOutput,
    diff,
    reported,     \* the error main's catch printed
    exitCode,     \* -1 while the process runs
    lookups,      \* how many times findSimilarArticle was called
    tallied,      \* whether the channel calls of the run are tallied
    reads,        \* readFileFromCloud calls of the run, when tallied
    writes,       \* writeFileToCloud calls of the run, when tallied
    persists      \* how many times fs.writeFile put bytes into each written file

retryVars == <<rpc, attempt, lastError, maxRetries, validator, rolled, delay,
               result, error, calls, sleeps>>
diffVars == <<dOld, dNew, dOut>>
mainVars == <<mpc, store, store0, article, previousArticles, similarityAnalysis,
              enrichedOutput, diff, reported, exitCode>>
tallyVars == <<lookups, tallied, reads, writes, persists>>
vars == <<retryVars, script, diffVars, mainVars, tallyVars>>

\* main() has not been started
NoRun ==
    /\ mpc = "none"
    /\ store = [k \in {} |-> None]
    /\ store0 = None
    /\ article = None
    /\ previousArticles = None
    /\ similarityAnalysis = None
    /\ enrichedOutput = None
    /\ diff = None
    /\ reported = None
    /\ exitCode = -1
    /\ lookups = 0
    /\ tallied = FALSE
    /\ reads = 0
    /\ writes = 0
    /\ persists = [k \in {"output.json", "diff.json"} |-> 0]

(* ------------------------- retryWithBackoff --------------------------- *)
\* `Operation failed after ${maxRetries} attempts: ${lastError?.message}`
\* mutant: the message names the index of the last attempt
ExhaustedNamesIndex(n, msg) == <<"Operation failed after", n - 1, "attempts:", msg>>

Exhausted(n, msg) == <<"Operation failed after", n, "attempts:", msg>>

\* mutant: the loop gives up one attempt early
IsLastAttemptEarly(p) == attempt[p] >= maxRetries[p] - 2

IsLastAttempt(p) == attempt[p] = maxRetries[p] - 1

\* the catch block of the loop body
OnFailure(p, msg) ==
    /\ lastError' = [lastError EXCEPT ![p] = msg]
    /\ rolled' = [rolled EXCEPT ![p] = -1]
    /\ UNCHANGED <<attempt, maxRetries, validator, result>>
    /\ IF IsLastAttempt(p)
       THEN /\ rpc' = [rpc EXCEPT ![p] = "thrown"]
            /\ error' = [error EXCEPT ![p] = Exhausted(maxRetries[p], msg)]
            /\ UNCHANGED <<delay, sleeps>>
       ELSE /\ \E j \in Jitter :
                 delay' = [delay EXCEPT ![p] = BaseDelay * Pow2(attempt[p]) + j]
            /\ rpc' = [rpc EXCEPT ![p] = "sleep"]
            /\ sleeps' = [sleeps EXCEPT ![p] = @ + 1]
            /\ UNCHANGED error

\* mutant: the validator's verdict is ignored
RejectsNever(p, r) == FALSE

Rejects(p, r) == validator[p] # "none" /\ ~isValidJson(r)

\* the try block after the operation has produced r
OnResult(p, r) ==
    IF Rejects(p, r)
    THEN OnFailure(p, InvalidData)
    ELSE /\ rpc' = [rpc EXCEPT ![p] = "returned"]
         /\ result' = [result EXCEPT ![p] = Some(r)]
         /\ rolled' = [rolled EXCEPT ![p] = -1]
         /\ UNCHANGED <<attempt, lastError, maxRetries, validator, delay, error, sleeps>>

\* the timer of the backoff sleep fires: attempt++ and the loop test
SleepDone(p) ==
    /\ rpc[p] = "sleep"
    /\ attempt' = [attempt EXCEPT ![p] = @ + 1]
    /\ delay' = [delay EXCEPT ![p] = 0]
    /\ IF attempt[p] + 1 < maxRetries[p]
       THEN /\ rpc' = [rpc EXCEPT ![p] = "attempt"]
            /\ UNCHANGED error
       ELSE /\ rpc' = [rpc EXCEPT ![p] = "thrown"]
            /\ error' = [error EXCEPT ![p] = Exhausted(maxRetries[p], lastError[p])]
    /\ UNCHANGED <<lastError, maxRetries, validator, rolled, result, calls, sleeps>>

\* entry of retryWithBackoff up to the first loop test, as a function of the
\* arguments: the fields of the call
Entered(n, v) ==
    [rpc |-> IF 0 < n THEN "attempt" ELSE "thrown",
     error |-> IF 0 < n THEN None ELSE Exhausted(n, Undefined),
     maxRetries |-> n,
     validator |-> v]

\* an operation is a script of outcomes, one per invocation
Throw(msg) == <<"throw", msg>>
Return(v) == <<"return", v>>

(* --------------------------- generateDiff ----------------------------- *)
EmptyObject == [x \in {} |-> None]

\* obj[k] = v on an object
Put(obj, k, v) == [x \in DOMAIN obj \cup {k} |-> IF x = k THEN v ELSE obj[x]]

\* mutant: category is left out of the compared fields
primitiveFieldsShort == <<"title", "summary">>

primitiveFields == <<"title", "summary", "category">>

RECURSIVE DiffPrimitive(_, _, _, _)
DiffPrimitive(fields, oldOutput, newOutput, changed) ==
    IF fields = <<>> THEN changed
    ELSE LET field == Head(fields)
         IN DiffPrimitive(Tail(fields), oldOutput, newOutput,
                IF oldOutput[field] # newOutput[field]
                THEN Put(changed, field,
                         [before |-> oldOutput[field], after |-> newOutput[field]])
                ELSE changed)

\* mutant: the takeaways are compared without regard to their order
TakeawaysDifferAsSets(oldTakeaways, newTakeaways) ==
    {oldTakeaways[i] : i \in DOMAIN oldTakeaways}
        # {newTakeaways[i] : i \in DOMAIN newTakeaways}

TakeawaysDiffer(oldTakeaways, newTakeaways) ==
    \/ Len(oldTakeaways) # Len(newTakeaways)
    \/ ~(\A idx \in 1..Len(oldTakeaways) : oldTakeaways[idx] = newTakeaways[idx])

\* mutant: similarTo is compared as a whole and reported with both subfields
SimilarToChangesWhole(oldSimilar, newSimilar) ==
    IF oldSimilar # newSimilar
    THEN [f \in {"title", "reason"} |-> [before |-> oldSimilar[f], after |-> newSimilar[f]]]
    ELSE EmptyObject

SimilarToChanges(oldSimilar, newSimilar) ==
    LET t == IF oldSimilar.title # newSimilar.title
             THEN Put(EmptyObject, "title",
                      [before |-> oldSimilar.title, after |-> newSimilar.title])
             ELSE EmptyObject
    IN IF oldSimilar.reason # newSimilar.reason
       THEN Put(t, "reason", [before |-> oldSimilar.reason, after |-> newSimilar.reason])
       ELSE t

generateDiff(oldOutput, newOutput) ==
    LET c1 == DiffPrimitive(primitiveFields, oldOutput, newOutput, EmptyObject)
        c2 == IF TakeawaysDiffer(oldOutput.takeaways, newOutput.takeaways)
              THEN Put(c1, "takeaways",
                       [before |-> oldOutput.takeaways, after |-> newOutput.takeaways])
              ELSE c1
        similarToChanges == SimilarToChanges(oldOutput.similarTo, newOutput.similarTo)
    IN [changed |-> IF DOMAIN similarToChanges # {}
                    THEN Put(c2, "similarTo", similarToChanges)
                    ELSE c2]

EmptyDiff == [changed |-> EmptyObject]

(* ------------------------ generateDiff harness ------------------------ *)
\* longest takeaways sequence of the articles generateDiff is applied to
MaxTakeaways == 2

Titles == {"A", "B"}
Summaries == {"S"}
Categories == {"C", "D"}
TakeawayTexts == {"t1", "t2"}
TakeawaysUpTo(n) == UNION {[1..m -> TakeawayTexts] : m \in 0..n}
SimilarTitles == {Null, "B"}
Reasons == {"", "r1", "r2"}
SimilarTos == [title : SimilarTitles, reason : Reasons]

EnrichedArticles ==
    [title : Titles, summary : Summaries, category : Categories,
     takeaways : TakeawaysUpTo(MaxTakeaways), similarTo : SimilarTos]

NoDiffCall ==
    /\ dOld = None
    /\ dNew = None
    /\ dOut = None

InitDiff ==
    /\ \E o \in EnrichedArticles, n \in EnrichedArticles :
         /\ dOld = Some(o)
         /\ dNew = Some(n)
    /\ dOut = None
    /\ rpc = [p \in Slots |-> "idle"]
    /\ attempt = [p \in Slots |-> 0]
    /\ lastError = [p \in Slots |-> Undefined]
    /\ maxRetries = [p \in Slots |-> DefaultMaxRetries]
    /\ validator = [p \in Slots |-> "none"]
    /\ rolled = [p \in Slots |-> -1]
    /\ delay = [p \in Slots |-> 0]
    /\ result = [p \in Slots |-> None]
    /\ error = [p \in Slots |-> None]
    /\ calls = [p \in Slots |-> 0]
    /\ sleeps = [p \in Slots |-> 0]
    /\ script = [i \in 1..MaxN |-> Throw("E1")]
    /\ NoRun

CallGenerateDiff ==
    /\ dOld # None
    /\ dOut = None
    /\ dOut' = Some(generateDiff(dOld[1], dNew[1]))
    /\ UNCHANGED <<dOld, dNew, retryVars, script, mainVars, tallyVars>>

NextDiff == CallGenerateDiff

SpecDiff == InitDiff /\ [][NextDiff]_vars

(* ------------------------ claims on generateDiff ----------------------- *)
TopLevelFields == {"title", "summary", "category", "takeaways"}

\* C9: generateDiff(p, n).changed holds a top-level field exactly when its
\* value differs between p and n, with the entry {before: p's, after: n's};
\* generateDiff(a, a) is {changed: {}}; no entry has before equal to after.
C9_TopLevelFieldsSparse ==
    dOut # None =>
        LET changed == dOut[1].changed
        IN /\ \A f \in TopLevelFields :
                /\ f \in DOMAIN changed <=> dOld[1][f] # dNew[1][f]
                /\ f \in DOMAIN changed =>
                      /\ changed[f] = [before |-> dOld[1][f], after |-> dNew[1][f]]
                      /\ changed[f].before # changed[f].after
           /\ dOld = dNew => DOMAIN changed = {}
           /\ DOMAIN changed \subseteq TopLevelFields \cup {"similarTo"}

C9_Witness ==
    /\ dOut # None
    /\ dOld[1].category # dNew[1].category
    /\ dOld[1].title = dNew[1].title
    /\ dOld[1].takeaways = dNew[1].takeaways
    /\ dOld[1].similarTo = dNew[1].similarTo
    /\ DOMAIN dOut[1].changed = {"category"}

\* C10: similarTo.title and similarTo.reason are compared independently:
\* changed.similarTo is present exactly when one of them differs and then
\* holds exactly the differing subfields with their before/after; a change
\* of a top-level field together with one of a similarTo subfield gives
\* both entries and none for any other field.
C10_SimilarToSubfields ==
    dOut # None =>
        LET changed == dOut[1].changed
            old == dOld[1].similarTo
            new == dNew[1].similarTo
            differing == {f \in {"title", "reason"} : old[f] # new[f]}
        IN /\ "similarTo" \in DOMAIN changed <=> differing # {}
           /\ "similarTo" \in DOMAIN changed =>
                 /\ DOMAIN changed["similarTo"] = differing
                 /\ \A f \in differing :
                       changed["similarTo"][f] = [before |-> old[f], after |-> new[f]]
           /\ DOMAIN changed =
                 {f \in TopLevelFields : dOld[1][f] # dNew[1][f]}
                 \cup (IF differing # {} THEN {"similarTo"} ELSE {})

C10_Witness ==
    /\ dOut # None
    /\ dOld[1].title # dNew[1].title
    /\ dOld[1].similarTo.reason # dNew[1].similarTo.reason
    /\ dOld[1].similarTo.title = dNew[1].similarTo.title
    /\ DOMAIN dOut[1].changed = {"title", "similarTo"}
    /\ DOMAIN dOut[1].changed["similarTo"] = {"reason"}

\* the elements of a sequence, with their multiplicities
Occurrences(seq, x) == Cardinality({i \in DOMAIN seq : seq[i] = x})
SameMultiset(a, b) == \A x \in TakeawayTexts : Occurrences(a, x) = Occurrences(b, x)

\* C11: takeaways is reported as changed exactly when the two sequences
\* differ in length or at some position; the same elements in another order
\* are reported as changed; the change is one {before, after} entry holding
\* the two whole sequences.
C11_TakeawaysOrdered ==
    dOut # None =>
        LET changed == dOut[1].changed
            old == dOld[1].takeaways
            new == dNew[1].takeaways
            differ == \/ Len(old) # Len(new)
                      \/ \E i \in 1..Len(old) : old[i] # new[i]
        IN /\ "takeaways" \in DOMAIN changed <=> differ
           /\ (SameMultiset(old, new) /\ old # new) => "takeaways" \in DOMAIN changed
           /\ "takeaways" \in DOMAIN changed =>
                 /\ DOMAIN changed["takeaways"] = {"before", "after"}
                 /\ changed["takeaways"].before = old
                 /\ changed["takeaways"].after = new

C11_Witness ==
    /\ dOut # None
    /\ dOld[1].takeaways = <<"t1", "t2">>
    /\ dNew[1].takeaways = <<"t2", "t1">>
    /\ dOut[1].changed["takeaways"] = [before |-> <<"t1", "t2">>, after |-> <<"t2", "t1">>]

(* --------------------------- retry harness ---------------------------- *)
HarnessErrors == {"E1", "E2"}
HarnessValues == {<<LBrace, RBrace>>, <<LBrace, <<"title", "A">>, RBrace>>, <<LBrace>>}
Outcomes == {Throw(e) : e \in HarnessErrors} \cup {Return(v) : v \in HarnessValues}
Scripts == [1..MaxN -> Outcomes]

RetryTypeOK ==
    /\ rpc \in [Slots -> {"idle", "attempt", "stall", "io", "sleep", "returned", "thrown"}]
    /\ attempt \in [Slots -> 0..DefaultMaxRetries]
    /\ maxRetries \in [Slots -> 0..(DefaultMaxRetries + MaxN)]
    /\ validator \in [Slots -> {"none", "isValidJson"}]
    /\ rolled \in [Slots -> -1..MaxDice]
    /\ calls \in [Slots -> 0..(DefaultMaxRetries + MaxN)]
    /\ sleeps \in [Slots -> 0..(DefaultMaxRetries + MaxN)]

InitRetry ==
    /\ script \in Scripts
    /\ NoDiffCall
    /\ NoRun
    /\ \E n \in 0..MaxN, v \in {"none", "isValidJson"} :
         /\ rpc = [p \in Slots |-> IF p = "harness" THEN Entered(n, v).rpc ELSE "idle"]
         /\ error = [p \in Slots |-> IF p = "harness" THEN Entered(n, v).error ELSE None]
         /\ maxRetries = [p \in Slots |-> IF p = "harness" THEN n ELSE DefaultMaxRetries]
         /\ validator = [p \in Slots |-> IF p = "harness" THEN v ELSE "none"]
    /\ attempt = [p \in Slots |-> 0]
    /\ lastError = [p \in Slots |-> Undefined]
    /\ rolled = [p \in Slots |-> -1]
    /\ delay = [p \in Slots |-> 0]
    /\ result = [p \in Slots |-> None]
    /\ calls = [p \in Slots |-> 0]
    /\ sleeps = [p \in Slots |-> 0]

\* await operation() of the scripted operation, and what the loop body does
\* with its outcome
HarnessInvoke ==
    /\ rpc["harness"] = "attempt"
    /\ calls' = [calls EXCEPT !["harness"] = @ + 1]
    /\ LET o == script[calls["harness"] + 1]
       IN IF o[1] = "throw"
          THEN OnFailure("harness", o[2])
          ELSE OnResult("harness", o[2])
    /\ UNCHANGED <<script, tallyVars, diffVars, mainVars>>

HarnessSleepDone ==
    /\ SleepDone("harness")
    /\ UNCHANGED <<script, tallyVars, diffVars, mainVars>>

NextRetry ==
    \/ HarnessInvoke
    \/ HarnessSleepDone

SpecRetry == InitRetry /\ [][NextRetry]_vars

(* ---------------------- claims on retryWithBackoff --------------------- *)
\* an invocation succeeds when it returns a value that the validator, when
\* one is supplied, accepts
Succeeds(o, v) == o[1] = "return" /\ (v = "none" \/ JsonParse(o[2]) # None)
FailureMessage(o) == IF o[1] = "throw" THEN o[2] ELSE InvalidData
FailsThenSucceeds(k) ==
    /\ \A i \in 1..k : ~Succeeds(script[i], validator["harness"])
    /\ Succeeds(script[k + 1], validator["harness"])
Settled(p) == rpc[p] \in {"returned", "thrown"}

\* C1: with maxRetries = N and an operation that fails on its first k
\* invocations and succeeds on invocation k+1, k < N, the call returns the
\* value of that invocation and the operation is invoked exactly k+1 times,
\* never again after the success.
C1_ReturnsFirstSuccess ==
    \A k \in 0..(MaxN - 1) :
        (k < maxRetries["harness"] /\ FailsThenSucceeds(k)) =>
            /\ calls["harness"] <= k + 1
            /\ rpc["harness"] # "thrown"
            /\ Settled("harness") =>
                  /\ result["harness"] = Some(script[k + 1][2])
                  /\ calls["harness"] = k + 1
            /\ calls["harness"] = k + 1 => Settled("harness")

C1_Witness ==
    /\ maxRetries["harness"] = 3
    /\ FailsThenSucceeds(2)
    /\ rpc["harness"] = "returned"
    /\ calls["harness"] = 3

\* C2: with maxRetries = N >= 1 and an operation whose every attempt fails,
\* the operation is invoked exactly N times and the call fails with the
\* aggregate error naming N and the message of the last failure; no other
\* error is ever thrown by a retryWithBackoff call.
C2_ExhaustedAfterN ==
    /\ LET N == maxRetries["harness"]
       IN (N >= 1 /\ \A i \in 1..N : ~Succeeds(script[i], validator["harness"])) =>
            /\ calls["harness"] <= N
            /\ rpc["harness"] # "returned"
            /\ Settled("harness") =>
                  /\ calls["harness"] = N
                  /\ error["harness"] =
                       <<"Operation failed after", N, "attempts:", FailureMessage(script[N])>>
    /\ \A p \in Slots :
         /\ rpc[p] = "thrown" =>
               /\ error[p] = <<"Operation failed after", maxRetries[p], "attempts:", lastError[p]>>
               /\ result[p] = None
         /\ rpc[p] # "thrown" => error[p] = None

C2_Witness ==
    /\ maxRetries["harness"] >= 2
    /\ rpc["harness"] = "thrown"
    /\ calls["harness"] = maxRetries["harness"]
    /\ script[1] = Throw("E1")
    /\ script[2][1] = "return"
    /\ error["harness"][4] = InvalidData

\* C3: a result the validator rejects is never returned; that attempt is
\* treated like a thrown failure: it uses up one attempt, is followed by a
\* backoff and a new attempt if attempts remain, and by the exhausted error
\* if it was the last.  A value is returned only if the operation returned
\* it and the validator, when present, accepted it.
C3_RejectedIsFailure ==
    /\ [](rpc["harness"] = "returned" =>
            /\ calls["harness"] >= 1
            /\ script[calls["harness"]][1] = "return"
            /\ result["harness"] = Some(script[calls["harness"]][2])
            /\ validator["harness"] = "none" \/ JsonParse(script[calls["harness"]][2]) # None)
    /\ [][(/\ rpc["harness"] = "attempt"
           /\ validator["harness"] # "none"
           /\ script[calls["harness"] + 1][1] = "return"
           /\ JsonParse(script[calls["harness"] + 1][2]) = None) =>
            /\ calls'["harness"] = calls["harness"] + 1
            /\ result'["harness"] = None
            /\ lastError'["harness"] = InvalidData
            /\ attempt'["harness"] = attempt["harness"]
            /\ IF attempt["harness"] = maxRetries["harness"] - 1
               THEN /\ rpc'["harness"] = "thrown"
                    /\ error'["harness"] =
                         <<"Operation failed after", maxRetries["harness"], "attempts:", InvalidData>>
                    /\ sleeps'["harness"] = sleeps["harness"]
               ELSE /\ rpc'["harness"] = "sleep"
                    /\ sleeps'["harness"] = sleeps["harness"] + 1
                    /\ error'["harness"] = None]_vars
    /\ [][(rpc["harness"] = "sleep" /\ lastError["harness"] = InvalidData) =>
            (rpc'["harness"] = "attempt" /\ attempt'["harness"] = attempt["harness"] + 1)]_vars

C3_Witness ==
    /\ validator["harness"] = "isValidJson"
    /\ script[1] = Return(<<LBrace>>)
    /\ script[2] = Return(<<LBrace, RBrace>>)
    /\ rpc["harness"] = "returned"
    /\ calls["harness"] = 2
    /\ lastError["harness"] = InvalidData

(* ------------------------------ channel ------------------------------- *)
ArticleKey == "src/prismicLib/enriched-article.json"
PreviousKey == "src/prismicLib/previous-articles.json"
OutputKey == "output.json"
DiffKey == "diff.json"
Keys == {ArticleKey, PreviousKey, OutputKey, DiffKey}

ReadSlots == {"article", "previous", "existing"}
WriteSlots == {"output", "diff"}
MainSlots == ReadSlots \cup WriteSlots

\* mutant: the diff is written to the file of the output
KeyOfOneFile(p) ==
    CASE p = "article" -> ArticleKey
      [] p = "previous" -> PreviousKey
      [] p \in {"existing", "output", "diff"} -> OutputKey

\* the path each call of readJsonFromCloud / writeJsonToCloud is given
KeyOf(p) ==
    CASE p = "article" -> ArticleKey
      [] p = "previous" -> PreviousKey
      [] p = "existing" -> OutputKey
      [] p = "output" -> OutputKey
      [] p = "diff" -> DiffKey

\* jsonString of writeJsonToCloud
WriteData(p) ==
    IF p = "output" THEN JsonStringify(enrichedOutput[1]) ELSE JsonStringify(diff[1])

\* what a write returns
Void == <<>>

\* main is between two awaits of its own: its continuation runs before any
\* timer or I/O completion
WriteRejected == \E p \in WriteSlots : rpc[p] = "thrown"
Running == mpc \notin {"none", "done", "failed"} /\ ~WriteRejected

\* dice < 0.1, dice < 0.2, dice < 0.3 with the dice in tenths
HardFails(d) == d < 1
Stalls(d) == d < 2
Truncates(d) == d < 3

\* a loop body that has been entered calls operation() in the same turn of
\* the event loop: no timer or I/O completion is handled before it
Entering == \E p \in MainSlots : rpc[p] = "attempt"
Waiting == Running /\ ~Entering

\* the operation of readJsonFromCloud calls readFileFromCloud, the one of
\* writeJsonToCloud calls writeFileToCloud
Tally(p) ==
    /\ reads' = IF tallied /\ p \in ReadSlots THEN reads + 1 ELSE reads
    /\ writes' = IF tallied /\ p \in WriteSlots THEN writes + 1 ELSE writes
    /\ UNCHANGED <<lookups, tallied, persists>>

\* mutant: a write opens its file, emptying it, before the dice is looked at
InvokeOpensFirst(p) ==
    /\ Running
    /\ rpc[p] = "attempt"
    /\ calls' = [calls EXCEPT ![p] = @ + 1]
    /\ \E d \in Dice :
         IF HardFails(d)
         THEN OnFailure(p, IF p \in ReadSlots THEN ReadFailed ELSE WriteFailed)
         ELSE /\ rpc' = [rpc EXCEPT ![p] = IF Stalls(d) THEN "stall" ELSE "io"]
              /\ rolled' = [rolled EXCEPT ![p] = d]
              /\ UNCHANGED <<attempt, lastError, maxRetries, validator, delay,
                             result, error, sleeps>>
    /\ Tally(p)
    /\ store' = IF p \in WriteSlots THEN [store EXCEPT ![KeyOf(p)] = Some(<<>>)] ELSE store
    /\ UNCHANGED <<script, diffVars, mpc, store0, article, previousArticles,
                   similarityAnalysis, enrichedOutput, diff, reported, exitCode>>

\* operation() is called: the channel function runs to its first await
Invoke(p) ==
    /\ Running
    /\ rpc[p] = "attempt"
    /\ calls' = [calls EXCEPT ![p] = @ + 1]
    /\ \E d \in Dice :
         IF HardFails(d)
         THEN OnFailure(p, IF p \in ReadSlots THEN ReadFailed ELSE WriteFailed)
         ELSE /\ rpc' = [rpc EXCEPT ![p] = IF Stalls(d) THEN "stall" ELSE "io"]
              /\ rolled' = [rolled EXCEPT ![p] = d]
              /\ UNCHANGED <<attempt, lastError, maxRetries, validator, delay,
                             result, error, sleeps>>
    /\ Tally(p)
    /\ UNCHANGED <<script, diffVars, mainVars>>

\* mutant: a stalled call hangs forever
StallHangs(p) ==
    /\ rpc[p] = "stall"
    /\ UNCHANGED vars

\* the 60 s timer of a stalled call fires
StallDone(p) ==
    /\ Waiting
    /\ rpc[p] = "stall"
    /\ rpc' = [rpc EXCEPT ![p] = "io"]
    /\ UNCHANGED <<attempt, lastError, maxRetries, validator, rolled, delay,
                   result, error, calls, sleeps>>
    /\ UNCHANGED <<script, tallyVars, diffVars, mainVars>>

\* fs.readFile completes: readFileFromCloud returns and the loop body goes on
ReadDone(p) ==
    /\ Waiting
    /\ p \in ReadSlots
    /\ rpc[p] = "io"
    /\ LET raw == store[KeyOf(p)]
       IN IF raw = None
          THEN OnFailure(p, Enoent)
          ELSE IF Truncates(rolled[p])
          THEN \E cutAt \in CutPoints(Len(raw[1])) : OnResult(p, Slice(raw[1], cutAt))
          ELSE OnResult(p, raw[1])
    /\ UNCHANGED <<calls, script, tallyVars, diffVars, mainVars>>

\* mutant: a write that was cut short is noticed after fs.writeFile and thrown
WriteDoneVerified(p) ==
    /\ Waiting
    /\ p \in WriteSlots
    /\ rpc[p] = "io"
    /\ LET data == WriteData(p)
       IN IF Truncates(rolled[p])
          THEN /\ \E cutAt \in CutPoints(Len(data)) :
                    store' = [store EXCEPT ![KeyOf(p)] = Some(Slice(data, cutAt))]
               /\ OnFailure(p, WriteFailed)
          ELSE /\ store' = [store EXCEPT ![KeyOf(p)] = Some(data)]
               /\ OnResult(p, Void)
    /\ persists' = [persists EXCEPT ![KeyOf(p)] = @ + 1]
    /\ UNCHANGED <<calls, script, lookups, tallied, reads, writes, diffVars, mpc, store0,
                   article, previousArticles,
                   similarityAnalysis, enrichedOutput, diff, reported, exitCode>>

\* fs.writeFile completes: writeFileToCloud returns and the loop body goes on
WriteDone(p) ==
    /\ Waiting
    /\ p \in WriteSlots
    /\ rpc[p] = "io"
    /\ LET data == WriteData(p)
       IN IF Truncates(rolled[p])
          THEN \E cutAt \in CutPoints(Len(data)) :
                 store' = [store EXCEPT ![KeyOf(p)] = Some(Slice(data, cutAt))]
          ELSE store' = [store EXCEPT ![KeyOf(p)] = Some(data)]
    /\ persists' = [persists EXCEPT ![KeyOf(p)] = @ + 1]
    /\ OnResult(p, Void)
    /\ UNCHANGED <<calls, script, lookups, tallied, reads, writes, diffVars, mpc, store0,
                   article, previousArticles,
                   similarityAnalysis, enrichedOutput, diff, reported, exitCode>>

\* the backoff timer fires
Backoff(p) ==
    /\ Waiting
    /\ SleepDone(p)
    /\ UNCHANGED <<script, tallyVars, diffVars, mainVars>>

\* main goes on after an await: the retryWithBackoff calls of `settled` have
\* ended and their locals are gone, and readJsonFromCloud / writeJsonToCloud
\* call retryWithBackoff for the slots of `started`
Start(settled, started, v) ==
    LET entered == Entered(DefaultMaxRetries, v)
        to(f, fresh, gone) ==
            [p \in Slots |-> IF p \in started THEN fresh
                             ELSE IF p \in settled THEN gone ELSE f[p]]
    IN /\ rpc' = to(rpc, entered.rpc, "idle")
       /\ error' = to(error, entered.error, None)
       /\ maxRetries' = to(maxRetries, entered.maxRetries, DefaultMaxRetries)
       /\ validator' = to(validator, entered.validator, "none")
       /\ attempt' = to(attempt, 0, 0)
       /\ lastError' = to(lastError, Undefined, Undefined)
       /\ result' = to(result, None, None)
       /\ calls' = to(calls, 0, 0)
       /\ sleeps' = to(sleeps, 0, 0)
       /\ UNCHANGED <<rolled, delay>>

(* ------------------------- similarity service ------------------------- *)
\* completion.choices[0]?.message?.content: None when there is no content
SimilarityText(a) == <<LBrace, <<"title", a.title>>, <<"reason", a.reason>>, RBrace>>
Answers ==
    {[title |-> Null, reason |-> "r1"], [title |-> "B", reason |-> "r2"],
     [title |-> "B", reason |-> ""]}
Contents ==
    {Some(SimilarityText(a)) : a \in Answers} \cup {Some(<<LBrace>>), None}

(* -------------------------------- main -------------------------------- *)
\* process.exit(1) with an fs.writeFile in flight: the file is left as it
\* was, or with any prefix of the bytes being written
ExitContents(k) ==
    {store[k]} \cup
    UNION {{Some(Slice(WriteData(p), c)) : c \in 0..Len(WriteData(p))} :
             p \in {q \in WriteSlots : rpc[q] = "io" /\ KeyOf(q) = k}}

\* the catch of main: console.error and process.exit(1)
Fail(e) ==
    /\ mpc' = "failed"
    /\ reported' = e
    /\ exitCode' = 1

\* a read awaited by main was rejected outside the inner try
MainReadFailed ==
    /\ \/ mpc = "readArticle" /\ rpc["article"] = "thrown" /\ Fail(error["article"])
       \/ mpc = "readPrevious" /\ rpc["previous"] = "thrown" /\ Fail(error["previous"])
    /\ UNCHANGED <<retryVars, script, tallyVars, diffVars, store, store0, article, previousArticles,
                   similarityAnalysis, enrichedOutput, diff>>

\* mutant: the read of output.json is started together with the read of the
\* prior corpus
MainArticleReadStartsBoth ==
    /\ mpc = "readArticle"
    /\ rpc["article"] = "returned"
    /\ article' = JsonParse(result["article"][1])
    /\ mpc' = "readPrevious"
    /\ Start({"article"}, {"previous", "existing"}, "isValidJson")
    /\ UNCHANGED <<script, tallyVars, diffVars, store, store0, previousArticles,
                   similarityAnalysis, enrichedOutput, diff, reported, exitCode>>

MainArticleRead ==
    /\ mpc = "readArticle"
    /\ rpc["article"] = "returned"
    /\ article' = JsonParse(result["article"][1])
    /\ mpc' = "readPrevious"
    /\ Start({"article"}, {"previous"}, "isValidJson")
    /\ UNCHANGED <<script, tallyVars, diffVars, store, store0, previousArticles, similarityAnalysis,
                   enrichedOutput, diff, reported, exitCode>>

MainPreviousRead ==
    /\ mpc = "readPrevious"
    /\ rpc["previous"] = "returned"
    /\ previousArticles' = JsonParse(result["previous"][1])
    /\ mpc' = "similarity"
    /\ Start({"previous"}, {}, "none")
    /\ UNCHANGED <<script, tallyVars, diffVars, store, store0, article, similarityAnalysis,
                   enrichedOutput, diff, reported, exitCode>>

\* mutant: similarTo.title is taken from the article
EnrichWithOwnTitle(a, analysis) ==
    Put(a, "similarTo", [title |-> a.title, reason |-> analysis.reason])

\* { ...article, similarTo: { title, reason } }
Enrich(a, analysis) ==
    Put(a, "similarTo", [title |-> analysis.title, reason |-> analysis.reason])

\* findSimilarArticle returns; main builds enrichedOutput, sets diff and
\* calls readJsonFromCloud("output.json")
SimilarityReturned ==
    /\ mpc = "similarity"
    /\ \E content \in Contents :
         /\ content # None
         /\ JsonParse(content[1]) # None
         /\ similarityAnalysis' = JsonParse(content[1])
    /\ enrichedOutput' = Some(Enrich(article[1], similarityAnalysis'[1]))
    /\ diff' = Some(EmptyDiff)
    /\ mpc' = "readExisting"
    /\ Start({}, {"existing"}, "isValidJson")
    /\ lookups' = lookups + 1
    /\ UNCHANGED <<script, tallied, reads, writes, persists, diffVars, store, store0, article,
                   previousArticles, reported, exitCode>>

\* mutant: a failed lookup is tried once more before main's catch sees it
SimilarityFailedRetries ==
    /\ mpc = "similarity"
    /\ lookups' = lookups + 1
    /\ IF lookups < 1
       THEN UNCHANGED <<mpc, reported, exitCode>>
       ELSE Fail(<<NoResponse>>)
    /\ UNCHANGED <<retryVars, script, tallied, reads, writes, persists, diffVars, store, store0,
                   article, previousArticles, similarityAnalysis, enrichedOutput, diff>>

\* findSimilarArticle throws: the request fails, there is no content, or the
\* content does not parse
SimilarityFailed ==
    /\ mpc = "similarity"
    /\ \/ Fail(<<"OpenAI request failed">>)
       \/ \E content \in Contents :
            \/ content = None /\ Fail(<<NoResponse>>)
            \/ content # None /\ JsonParse(content[1]) = None /\ Fail(<<"SyntaxError">>)
    /\ lookups' = lookups + 1
    /\ UNCHANGED <<retryVars, script, tallied, reads, writes, persists, diffVars, store, store0,
                   article, previousArticles, similarityAnalysis, enrichedOutput, diff>>

\* generateDiff's property reads throw a TypeError on such an oldOutput
DiffThrows(oldOutput) ==
    \/ "takeaways" \notin DOMAIN oldOutput
    \/ "similarTo" \notin DOMAIN oldOutput

StartWrites ==
    /\ mpc' = "writes"
    /\ Start({"existing"}, WriteSlots, "none")

\* the inner try: the read of output.json returned
MainExistingRead ==
    /\ mpc = "readExisting"
    /\ rpc["existing"] = "returned"
    /\ LET existingOutput == JsonParse(result["existing"][1])[1]
       IN diff' = IF DiffThrows(existingOutput)
                  THEN diff
                  ELSE Some(generateDiff(existingOutput, enrichedOutput[1]))
    /\ StartWrites
    /\ UNCHANGED <<script, tallyVars, diffVars, store, store0, article, previousArticles,
                   similarityAnalysis, enrichedOutput, reported, exitCode>>

\* mutant: there is no inner try, the rejection reaches main's catch
MainExistingFailedAborts ==
    /\ mpc = "readExisting"
    /\ rpc["existing"] = "thrown"
    /\ Fail(error["existing"])
    /\ UNCHANGED <<retryVars, script, tallyVars, diffVars, store, store0, article, previousArticles,
                   similarityAnalysis, enrichedOutput, diff>>

\* the inner catch: the read of output.json was rejected
MainExistingFailed ==
    /\ mpc = "readExisting"
    /\ rpc["existing"] = "thrown"
    /\ StartWrites
    /\ UNCHANGED <<script, tallyVars, diffVars, store, store0, article, previousArticles,
                   similarityAnalysis, enrichedOutput, diff, reported, exitCode>>

\* mutant: the first write to be fulfilled settles the await
AnyFulfilled(ps) == \E p \in ps : rpc[p] = "returned"

\* Promise.all(ps) is fulfilled
AllFulfilled(ps) == \A p \in ps : rpc[p] = "returned"

MainDone ==
    /\ mpc = "writes"
    /\ AllFulfilled(WriteSlots)
    /\ mpc' = "done"
    /\ exitCode' = 0
    /\ UNCHANGED <<retryVars, script, tallyVars, diffVars, store, store0, article, previousArticles,
                   similarityAnalysis, enrichedOutput, diff, reported>>

\* Promise.all is rejected by the first write that is rejected
MainWritesFailed ==
    /\ mpc = "writes"
    /\ \E p \in WriteSlots : rpc[p] = "thrown" /\ Fail(error[p])
    /\ \E o \in ExitContents(OutputKey), d \in ExitContents(DiffKey) :
         /\ store' = [store EXCEPT ![OutputKey] = o, ![DiffKey] = d]
         /\ persists' = [k \in DOMAIN persists |->
                            IF store'[k] # store[k] THEN persists[k] + 1 ELSE persists[k]]
    /\ UNCHANGED <<retryVars, script, lookups, tallied, reads, writes, diffVars, store0,
                   article, previousArticles,
                   similarityAnalysis, enrichedOutput, diff>>

(* ----------------------------- the inputs ----------------------------- *)
SourceArticles ==
    {[title |-> "A", summary |-> "S", category |-> "C", takeaways |-> <<"t1">>]}
PriorCorpus == <<[title |-> "B", summary |-> "S", category |-> "D", takeaways |-> <<"t2">>]>>

\* what an earlier run may have left at output.json: nothing, a complete
\* output, a truncated one, or an object that is no enriched article
EarlierOutputs ==
    {[title |-> "A", summary |-> "S", category |-> c, takeaways |-> <<"t1">>,
      similarTo |-> [title |-> Null, reason |-> "r1"]] : c \in Categories}
Truncations(data) == {Slice(data, c) : c \in CutPoints(Len(data))}
TruncatedOutputs ==
    UNION {Truncations(JsonStringify(e)) :
             e \in {x \in EarlierOutputs : x.category = "C"}}
Stored ==
    {None, Some(<<LBrace, RBrace>>)}
    \cup {Some(JsonStringify(e)) : e \in EarlierOutputs}
    \cup {Some(t) : t \in TruncatedOutputs}

\* the start of main() with output.json holding one of `olds`
Begin(t, olds) ==
    /\ mpc = "readArticle"
    /\ \E a \in SourceArticles, o \in olds :
         /\ store = [k \in Keys |->
                       CASE k = ArticleKey -> Some(JsonStringify(a))
                         [] k = PreviousKey -> Some(JsonStringifyArray(PriorCorpus))
                         [] k = OutputKey -> o
                         [] k = DiffKey -> None]
         /\ store0 = o
    /\ article = None
    /\ previousArticles = None
    /\ similarityAnalysis = None
    /\ enrichedOutput = None
    /\ diff = None
    /\ reported = None
    /\ exitCode = -1
    /\ lookups = 0
    /\ tallied = t
    /\ reads = 0
    /\ writes = 0
    /\ persists = [k \in {"output.json", "diff.json"} |-> 0]
    /\ rpc = [p \in Slots |->
                IF p = "article" THEN Entered(DefaultMaxRetries, "isValidJson").rpc ELSE "idle"]
    /\ error = [p \in Slots |-> None]
    /\ maxRetries = [p \in Slots |-> DefaultMaxRetries]
    /\ validator = [p \in Slots |-> IF p = "article" THEN "isValidJson" ELSE "none"]
    /\ attempt = [p \in Slots |-> 0]
    /\ lastError = [p \in Slots |-> Undefined]
    /\ rolled = [p \in Slots |-> -1]
    /\ delay = [p \in Slots |-> 0]
    /\ result = [p \in Slots |-> None]
    /\ calls = [p \in Slots |-> 0]
    /\ sleeps = [p \in Slots |-> 0]
    /\ script = [i \in 1..MaxN |-> Throw("E1")]
    /\ NoDiffCall

Next ==
    \/ \E p \in MainSlots : Invoke(p)
    \/ \E p \in MainSlots : StallDone(p)
    \/ \E p \in MainSlots : ReadDone(p)
    \/ \E p \in MainSlots : WriteDone(p)
    \/ \E p \in MainSlots : Backoff(p)
    \/ MainArticleRead
    \/ MainPreviousRead
    \/ MainReadFailed
    \/ SimilarityReturned
    \/ SimilarityFailed
    \/ MainExistingRead
    \/ MainExistingFailed
    \/ MainDone
    \/ MainWritesFailed

Init == Begin(FALSE, Stored)

Spec == Init /\ [][Next]_vars

\* the run with its channel calls tallied; every pending call, timer and
\* lookup completes, so a step that can be taken is eventually taken
TalliedOutputs ==
    {Some(JsonStringify(e)) : e \in {x \in EarlierOutputs : x.category = "D"}}
InitTallied == Begin(TRUE, TalliedOutputs)
SpecTallied == InitTallied /\ [][Next]_vars /\ WF_vars(Next)

TypeOK ==
    /\ RetryTypeOK
    /\ mpc \in {"readArticle", "readPrevious", "similarity", "readExisting",
                "writes", "done", "failed"}
    /\ exitCode \in {-1, 0, 1}

(* -------------------------- claims on the run ------------------------- *)
InFlight(p) == rpc[p] \in {"attempt", "stall", "io", "sleep"}
CompleteOutputs == {Some(JsonStringify(e)) : e \in EarlierOutputs}
AllFields == TopLevelFields \cup {"similarTo"}

\* C4: whenever the run ends successfully, output.json holds the full
\* serialized enriched output and diff.json the full serialized diff.
C4_DoneHoldsFullFiles ==
    mpc = "done" =>
        /\ store[OutputKey] = Some(JsonStringify(enrichedOutput[1]))
        /\ store[DiffKey] = Some(JsonStringify(diff[1]))

\* C5: when one of the two writes fails after exhausting its retries the
\* other is not canceled, and the run does not end while the other write is
\* still in flight.
C5_OtherWriteObserved ==
    exitCode # -1 => \A p \in WriteSlots : ~InFlight(p)

\* C6: the run ends Done with exit status zero only if both writes succeeded
\* within their retry budgets; when either write fails after exhausting its
\* retries the run ends Failed with a non-zero exit status, also when the
\* other write persisted its file.
C6_DoneOnlyIfBothWritten ==
    /\ [](/\ (mpc = "done" \/ exitCode = 0) =>
               /\ mpc = "done"
               /\ exitCode = 0
               /\ \A p \in WriteSlots :
                    /\ rpc[p] = "returned"
                    /\ calls[p] \in 1..DefaultMaxRetries
                    /\ store[KeyOf(p)] # None
          /\ mpc = "failed" => exitCode = 1)
    /\ [][(\E p \in WriteSlots : rpc[p] = "thrown") =>
            /\ mpc' = "failed"
            /\ exitCode' = 1
            /\ \E p \in WriteSlots :
                 /\ calls[p] = DefaultMaxRetries
                 /\ reported' = <<"Operation failed after", DefaultMaxRetries,
                                  "attempts:", WriteFailed>>]_vars

C6_Witness ==
    /\ mpc = "failed"
    /\ exitCode = 1
    /\ rpc["diff"] = "thrown"
    /\ rpc["output"] = "returned"
    /\ store[OutputKey] = Some(JsonStringify(enrichedOutput[1]))

\* C7: when the read of the previous output fails, for whatever reason, the
\* run is not aborted: the diff is {changed: {}} and both writes are issued.
C7_FailedPriorReadIsNoPrior ==
    /\ [][(mpc = "readExisting" /\ rpc["existing"] = "thrown") =>
            /\ mpc' = "writes"
            /\ exitCode' = -1
            /\ reported' = None
            /\ diff' = Some([changed |-> EmptyObject])
            /\ \A p \in WriteSlots : rpc'[p] = "attempt" /\ calls'[p] = 0]_vars
    /\ [][(mpc = "writes" /\ mpc' # "failed") => diff' = diff]_vars
    /\ []((mpc \in {"writes", "done"} /\ store0 \notin CompleteOutputs) =>
            /\ DOMAIN diff[1].changed = {}
            /\ \A p \in WriteSlots :
                 rpc[p] = "returned" => store[KeyOf(p)] # None)

C7_Witness ==
    /\ mpc = "done"
    /\ store0 \in {Some(t) : t \in TruncatedOutputs}
    /\ diff = Some(EmptyDiff)
    /\ store[DiffKey] = Some(JsonStringify(EmptyDiff))
    /\ store[OutputKey] = Some(JsonStringify(enrichedOutput[1]))

\* C8: when a complete previous output is at output.json at the start of
\* the run, the diff the run writes is the comparison of that output with
\* the new one: every field in which the two differ is listed as changed.
C8_DiffOfPreviousOutput ==
    (mpc \in {"writes", "done"} /\ store0 \in CompleteOutputs) =>
        LET previous == JsonParse(store0[1])[1]
        IN \A f \in AllFields :
             previous[f] # enrichedOutput[1][f] => f \in DOMAIN diff[1].changed

\* C12: in a run that gets past the similarity lookup the enriched output
\* is the source article with title, summary, category and takeaways as they
\* are, plus similarTo equal to the {title, reason} the service returned
\* (title null when it returned null); with no previous output present the
\* diff is {changed: {}}.
C12_EnrichedIsArticlePlusSimilarTo ==
    enrichedOutput # None =>
        LET source == JsonParse(store[ArticleKey][1])[1]
            out == enrichedOutput[1]
        IN /\ DOMAIN out = TopLevelFields \cup {"similarTo"}
           /\ \A f \in TopLevelFields : out[f] = source[f]
           /\ DOMAIN out.similarTo = {"title", "reason"}
           /\ out.similarTo.title = similarityAnalysis[1].title
           /\ out.similarTo.reason = similarityAnalysis[1].reason
           /\ similarityAnalysis[1] \in Answers
           /\ (store0 = None /\ mpc \in {"writes", "done", "failed"}) =>
                 diff = Some([changed |-> EmptyObject])
           /\ mpc = "done" =>
                 store[OutputKey] \in
                     {Some(Slice(JsonStringify(out), c)) : c \in 0..Len(JsonStringify(out))}

C12_Witness ==
    /\ mpc = "done"
    /\ store0 = None
    /\ enrichedOutput[1].similarTo = [title |-> Null, reason |-> "r1"]
    /\ enrichedOutput[1].title = "A"
    /\ store[OutputKey] = Some(JsonStringify(enrichedOutput[1]))
    /\ store[DiffKey] = Some(JsonStringify(EmptyDiff))

\* C13: on every call of the channel exactly one of hard failure, stall,
\* truncation and success occurs: a call that stalls completes with the
\* exact bytes and is not also truncated.
C13_StalledCallIsExact ==
    [][\A p \in MainSlots :
         (rpc[p] = "io" /\ Stalls(rolled[p]) /\ rpc'[p] # "io") =>
            IF p \in WriteSlots
            THEN store'[KeyOf(p)] = Some(WriteData(p))
            ELSE store[KeyOf(p)] # None => result'[p] = store[KeyOf(p)]]_vars

\* the errors findSimilarArticle ends with
SimilarityErrors == {<<"OpenAI request failed">>, <<NoResponse>>, <<"SyntaxError">>}
SimilarityHasFailed == mpc = "failed" /\ previousArticles # None /\ similarityAnalysis = None

StepOf(p) ==
    CASE p = "article" -> "readArticle"
      [] p = "previous" -> "readPrevious"
      [] p = "existing" -> "readExisting"
      [] p \in WriteSlots -> "writes"
Settles(p) == rpc[p] \in {"returned", "thrown"}
Untouched(p) == rpc[p] = "idle" /\ calls[p] = 0
StoreAsStarted == store[OutputKey] = store0 /\ store[DiffKey] = None

\* what each step has completed, and what the steps after it have not begun
C15_StepState ==
    /\ \A p \in ReadSlots : InFlight(p) => mpc = StepOf(p)
    /\ \A p \in WriteSlots : (InFlight(p) \/ calls[p] > 0) =>
          /\ mpc \in {"writes", "done", "failed"}
          /\ article # None /\ previousArticles # None /\ similarityAnalysis # None
          /\ enrichedOutput # None /\ diff # None
    /\ mpc = "readArticle" =>
          /\ article = None /\ previousArticles = None /\ lookups = 0
          /\ \A p \in MainSlots \ {"article"} : Untouched(p)
    /\ mpc = "readPrevious" =>
          /\ article # None /\ previousArticles = None /\ lookups = 0
          /\ \A p \in MainSlots \ {"previous"} : Untouched(p)
    /\ mpc = "similarity" =>
          /\ previousArticles # None /\ similarityAnalysis = None /\ diff = None
          /\ \A p \in MainSlots : Untouched(p)
    /\ mpc = "readExisting" =>
          /\ similarityAnalysis # None /\ diff = Some([changed |-> EmptyObject])
          /\ \A p \in MainSlots \ {"existing"} : Untouched(p)
    /\ mpc = "writes" => Untouched("existing") /\ diff # None
    /\ mpc \in {"readArticle", "readPrevious", "similarity", "readExisting"} =>
          StoreAsStarted
    /\ (mpc = "failed" /\ (article = None \/ previousArticles = None)) =>
          /\ lookups = 0 /\ similarityAnalysis = None /\ StoreAsStarted
          /\ \A p \in MainSlots \ {"article", "previous"} : Untouched(p)
          /\ \E p \in {"article", "previous"} :
                rpc[p] = "thrown" /\ calls[p] = DefaultMaxRetries /\ reported = error[p]

\* main moves from a step to the next one only, and only once the step's
\* operation has settled
C15_StepMoves ==
    mpc' # mpc =>
       \/ /\ mpc = "readArticle" /\ rpc["article"] = "returned" /\ mpc' = "readPrevious"
          /\ rpc'["previous"] = "attempt"
       \/ /\ mpc = "readPrevious" /\ rpc["previous"] = "returned" /\ mpc' = "similarity"
       \/ /\ mpc = "similarity" /\ lookups' = 1 /\ similarityAnalysis' # None
          /\ mpc' = "readExisting" /\ rpc'["existing"] = "attempt"
       \/ /\ mpc = "readExisting" /\ Settles("existing") /\ mpc' = "writes"
          /\ \A p \in WriteSlots : rpc'[p] = "attempt"
       \/ /\ mpc = "writes" /\ mpc' = "done" /\ \A p \in WriteSlots : rpc[p] = "returned"
       \/ /\ mpc = "writes" /\ mpc' = "failed" /\ \E p \in WriteSlots : rpc[p] = "thrown"
       \/ /\ mpc = "similarity" /\ mpc' = "failed" /\ similarityAnalysis' = None
       \/ /\ mpc \in {"readArticle", "readPrevious"} /\ mpc' = "failed"
          /\ \E p \in {"article", "previous"} : mpc = StepOf(p) /\ rpc[p] = "thrown"

\* C15: the steps of a run happen in the order read source article, read
\* prior corpus, similarity lookup, try-read previous output, compute diff,
\* writes, each starting only after the one before has completed; when an
\* input read exhausts its retries the run ends Failed with no later step, and
\* no write is issued before both input reads and the lookup have succeeded.
C15_StepsInOrder == [](C15_StepState) /\ [][C15_StepMoves]_vars

C15_Witness ==
    /\ mpc = "failed" /\ article # None /\ previousArticles = None
    /\ rpc["previous"] = "thrown" /\ calls["previous"] = DefaultMaxRetries
    /\ StoreAsStarted /\ store0 \in CompleteOutputs

\* the backoff that follows the failed attempt with index i
DelayInRange(d, i) == BaseDelay * (2 ^ i) <= d /\ d < BaseDelay * (2 ^ i) + JitterRange

C16_SleepState ==
    LET h == "harness"
    IN /\ rpc[h] = "sleep" =>
            /\ attempt[h] < maxRetries[h] - 1
            /\ DelayInRange(delay[h], attempt[h])
            /\ sleeps[h] = attempt[h] + 1
            /\ calls[h] = attempt[h] + 1
       /\ rpc[h] # "sleep" => delay[h] = 0
       /\ rpc[h] = "attempt" => sleeps[h] = attempt[h] /\ calls[h] = attempt[h]
       /\ rpc[h] = "returned" => sleeps[h] = calls[h] - 1
       /\ (rpc[h] = "thrown" /\ calls[h] >= 1) =>
            calls[h] = maxRetries[h] /\ sleeps[h] = maxRetries[h] - 1
       /\ \A k \in 0..(MaxN - 1) :
            (k < maxRetries[h] /\ FailsThenSucceeds(k) /\ rpc[h] = "returned") =>
                sleeps[h] = k

C16_SleepMoves ==
    LET h == "harness"
        fails == ~Succeeds(script[calls[h] + 1], validator[h])
    IN /\ (rpc[h] = "attempt" /\ fails /\ attempt[h] < maxRetries[h] - 1) =>
            /\ rpc'[h] = "sleep"
            /\ DelayInRange(delay'[h], attempt[h])
            /\ sleeps'[h] = sleeps[h] + 1
       /\ (rpc[h] = "attempt" /\ fails /\ attempt[h] = maxRetries[h] - 1) =>
            rpc'[h] = "thrown" /\ sleeps'[h] = sleeps[h] /\ delay'[h] = 0
       /\ (rpc[h] = "attempt" /\ ~fails) =>
            rpc'[h] = "returned" /\ sleeps'[h] = sleeps[h] /\ delay'[h] = 0
       /\ (rpc'[h] = "attempt" /\ rpc[h] # "attempt") =>
            rpc[h] = "sleep" /\ attempt'[h] = attempt[h] + 1 /\ sleeps'[h] = sleeps[h]
       /\ rpc[h] \in {"returned", "thrown"} => UNCHANGED <<rpc, sleeps, delay>>

\* C16: after the failed attempt with index i < maxRetries - 1 the next
\* attempt starts only after a sleep of d with
\* baseDelay * 2^i <= d < baseDelay * 2^i + 1000; no sleep follows the last
\* failed attempt or a success: k failures before a success make k sleeps, N
\* exhausted attempts make N - 1.
C16_BackoffSleeps == [](C16_SleepState) /\ [][C16_SleepMoves]_vars

C16_Witness ==
    /\ maxRetries["harness"] = MaxN
    /\ rpc["harness"] = "sleep"
    /\ attempt["harness"] = 2
    /\ delay["harness"] = BaseDelay * 4 + 999
    /\ sleeps["harness"] = 3

\* the entry at k is a valid document no proper prefix of which parses
ValidKey(k) ==
    /\ store[k] # None
    /\ JsonParse(store[k][1]) # None
    /\ \A c \in 0..(Len(store[k][1]) - 1) : JsonParse(Slice(store[k][1], c)) = None

C17_CompleteWhenReturned ==
    /\ \A p \in ReadSlots :
         (ValidKey(KeyOf(p)) /\ rpc[p] = "returned") => result[p] = store[KeyOf(p)]
    /\ article # None => article = JsonParse(store[ArticleKey][1])
    /\ previousArticles # None => previousArticles = JsonParse(store[PreviousKey][1])

C17_TruncatedIsRetried ==
    \A p \in ReadSlots :
       /\ (/\ rpc[p] = "io" /\ rpc'[p] # "io"
           /\ ValidKey(KeyOf(p)) /\ Truncates(rolled[p])) =>
             /\ result'[p] = None
             /\ lastError'[p] = InvalidData
             /\ rpc'[p] = IF attempt[p] = maxRetries[p] - 1 THEN "thrown" ELSE "sleep"
       /\ (rpc[p] = "sleep" /\ rpc'[p] # "sleep") =>
             rpc'[p] = "attempt" /\ attempt'[p] = attempt[p] + 1
       /\ (mpc = StepOf(p) /\ mpc' # mpc /\ rpc[p] = "returned" /\ ValidKey(KeyOf(p))) =>
             JsonParse(result[p][1]) = JsonParse(store[KeyOf(p)][1])

\* C17: for a key holding a valid document no proper prefix of which parses,
\* readJsonFromCloud never returns a document decoded from truncated bytes: a
\* truncated read is a failed attempt and is retried, and what is returned is
\* the decoding of the complete stored content.
C17_NoTruncatedDocument == [](C17_CompleteWhenReturned) /\ [][C17_TruncatedIsRetried]_vars

C17_Witness ==
    /\ mpc = "readExisting" /\ rpc["existing"] = "returned"
    /\ ValidKey(OutputKey)
    /\ lastError["existing"] = InvalidData
    /\ calls["existing"] = 3
    /\ result["existing"] = store[OutputKey]
    /\ Len(store[OutputKey][1]) > 2

\* the call of slot p is made in this step and ends in it with the channel error
HardFailure(p) ==
    /\ rpc[p] = "attempt"
    /\ calls'[p] = calls[p] + 1
    /\ rpc'[p] \in {"sleep", "thrown"}
    /\ lastError'[p] = IF p \in ReadSlots THEN ReadFailed ELSE WriteFailed

\* a step of a call of readFileFromCloud, whatever its outcome
ReadStep(p) == p \in ReadSlots /\ InFlight(p) /\ <<rpc[p], calls[p]>> # <<rpc'[p], calls'[p]>>

\* C18: a channel call that ends in hard failure leaves every stored entry as
\* it was, a failed write persisting nothing of its data, and a read never
\* changes a stored entry, whatever its outcome.
C18_FailureAndReadKeepStore ==
    [][/\ \A p \in MainSlots : HardFailure(p) => store' = store
       /\ \A p \in ReadSlots : ReadStep(p) => store' = store
       /\ store'[ArticleKey] = store[ArticleKey]
       /\ store'[PreviousKey] = store[PreviousKey]]_vars

C18_Witness ==
    /\ mpc = "writes"
    /\ rpc["output"] = "sleep" /\ calls["output"] = 2 /\ sleeps["output"] = 2
    /\ lastError["output"] = WriteFailed
    /\ store0 \in CompleteOutputs
    /\ store[OutputKey] = store0
    /\ store[DiffKey] = None /\ calls["diff"] >= 1

\* a call of readFileFromCloud / writeFileToCloud of slot p has not returned
InChannel(p) == rpc[p] \in {"stall", "io"}

C19_OnePerKey ==
    /\ \A p, q \in MainSlots :
         (p # q /\ KeyOf(p) = KeyOf(q)) =>
            /\ ~(InChannel(p) /\ InChannel(q))
            /\ ~(InFlight(p) /\ InFlight(q))
    /\ (InFlight("output") \/ calls["output"] > 0) => Untouched("existing")
    /\ InFlight("existing") => Untouched("output")

C19_OneAttemptAtATime ==
    /\ \A p \in MainSlots :
         /\ InChannel(p) => calls'[p] = calls[p] /\ rpc'[p] # "attempt"
         /\ calls'[p] # calls[p] =>
               \/ rpc[p] = "attempt" /\ calls'[p] = calls[p] + 1
               \/ calls'[p] = 0 /\ ~InFlight(p)
         /\ (rpc[p] = "stall" /\ rpc'[p] # "stall") => rpc'[p] = "io"
    /\ (Untouched("output") /\ ~Untouched("output")') => Settles("existing")

\* C19: two channel operations are never in flight on the same key: the two
\* concurrent writes go to distinct keys, the read of output.json has made all
\* its attempts before the write of output.json starts, and an attempt on a
\* key starts only after the previous attempt on it, stalled or not, has
\* completed.
C19_NoTwoOnOneKey == [](C19_OnePerKey) /\ [][C19_OneAttemptAtATime]_vars

C19_Witness ==
    /\ mpc = "writes"
    /\ rpc["output"] = "io" /\ rpc["diff"] = "stall"
    /\ calls["output"] = 2 /\ calls["diff"] = 3
    /\ store0 \in CompleteOutputs

Terminated == mpc \in {"done", "failed"}

C20_Budget ==
    /\ \A p \in MainSlots :
         /\ calls[p] <= DefaultMaxRetries
         /\ rpc[p] = "thrown" => calls[p] = DefaultMaxRetries
    /\ reads <= 15
    /\ writes <= 10
    /\ mpc = "writes" => writes = calls["output"] + calls["diff"]

\* C20: every run terminates: when each channel call, backoff sleep and the
\* similarity call eventually complete, the run reaches Done or Failed; every
\* retried operation is invoked at most 5 times, so a run makes at most 15
\* channel reads and at most 10 channel writes.
C20_TerminatesWithinBudget == <>Terminated /\ [](C20_Budget)

C20_Witness ==
    /\ mpc = "done"
    /\ reads = 15
    /\ writes = 10

\* title != null only paired with a non-empty reason
TitleHasReason(similarTo) == similarTo.title # Null => similarTo.reason # ""

\* the document output.json holds, when it holds one with a similarTo
WrittenSimilarTo ==
    IF store[OutputKey] = None \/ store[OutputKey] = store0 THEN None
    ELSE LET doc == JsonParse(store[OutputKey][1])
         IN IF doc = None \/ "similarTo" \notin DOMAIN doc[1] THEN None
            ELSE Some(doc[1].similarTo)

\* C21: every enriched document the run constructs and writes to output.json
\* has a non-null similarTo.title only together with a non-empty
\* similarTo.reason, whatever pair the similarity service returned.
C21_TitleOnlyWithReason ==
    /\ enrichedOutput # None => TitleHasReason(enrichedOutput[1].similarTo)
    /\ WrittenSimilarTo # None => TitleHasReason(WrittenSimilarTo[1])

\* what the file at k held when the run started
Started(k) == IF k = OutputKey THEN store0 ELSE None

\* C22: within one run the content of output.json and of diff.json changes
\* at most once: an attempt of writeJsonToCloud that fails has persisted
\* nothing and the first attempt that does not fail is the last, so a
\* successful writeJsonToCloud has persisted bytes exactly once and a failed
\* one nothing.
C22_PersistedAtMostOnce ==
    \A p \in WriteSlots :
       LET k == KeyOf(p)
       IN /\ persists[k] <= 1
          /\ persists[k] = 0 => store[k] = Started(k)
          /\ (InFlight(p) /\ mpc # "failed") => persists[k] = 0
          /\ lastError[p] # Undefined => lastError[p] = WriteFailed
          /\ rpc[p] = "sleep" => persists[k] = 0 /\ store[k] = Started(k)
          /\ rpc[p] = "returned" =>
                /\ persists[k] = 1
                /\ store[k] \in {Some(Slice(WriteData(p), c)) : c \in 0..Len(WriteData(p))}
          /\ rpc[p] = "thrown" =>
                /\ persists[k] = 0
                /\ calls[p] = DefaultMaxRetries
                /\ store[k] = Started(k)

C22_Witness ==
    /\ mpc = "failed"
    /\ rpc["diff"] = "thrown" /\ persists[DiffKey] = 0 /\ store[DiffKey] = None
    /\ rpc["output"] = "returned" /\ calls["output"] = 3 /\ persists[OutputKey] = 1
    /\ store0 \in CompleteOutputs
    /\ store[OutputKey] # store0

====
